---- MODULE Spec2Model ----
(***************************************************************************)
(* Model of jakemath/orderbook.                                            *)
(*                                                                         *)
(* The repository holds two order books:                                   *)
(*   src/l2.rs        Orderbook over two BTreeMap<u64, u64> (scaled price  *)
(*                    to scaled quantity), fed by process().               *)
(*   src/orderbook.rs Orderbook over two PriorityQueue<PriceLevel, i64>,   *)
(*                    fed by add(), driven by src/main.rs.                 *)
(*                                                                         *)
(* Floating point values.  Every f64/f32 input of the model is a multiple  *)
(* of 1/Den and is represented by the integer v * Den.  With Den a power   *)
(* of two and the small magnitudes used here every product, sum and        *)
(* difference the code computes is exact in f32 and f64, so the integer    *)
(* arithmetic below is the arithmetic of the code.  A quotient is kept as  *)
(* the pair [num, den] of its exact operands.                              *)
(***************************************************************************)
EXTENDS Integers, Sequences, FiniteSets, TLC

\* ---------------------------------------------------------------- bounds
Den == 2
MaxUpd == 2
MaxSimQty == 4

\* input alphabets (values in units of 1/Den)
L2PriceInputs == {2, 3}
L2QtyInputs == {0, 1, 2}
ObPriceInputs == {2, 3, 4}
ObQtyInputs == {-2, 2, 4}
DecimalsInputs == {0, 1}
SimQtyInputs == 0..MaxSimQty
\* decimals handed to a constructor; 10^9 is the last power a u32 holds
ConstructionInputs == 0..9

\* inputs of the book built with 8 decimals: whole numbers
WidePriceInputs == {40 * Den, 50 * Den}
WideQtyInputs == {0, 20 * Den, 40 * Den}
WideSimQtyInputs == {20 * Den, 60 * Den}

\* ------------------------------------------------------- program constants
MAX_DECIMALS == 8
DEFAULT_DECIMALS == 6
\* u64::MAX = 18446744073709551615 in units of 10^16, rounded down
U64MaxWide == 1844

VARIABLES
    kind,             \* which Orderbook was constructed: "l2" or "ob";
                      \* "l2_wide" is the l2 book at 8 decimals (see below)
    price_factor,     \* l2::Orderbook.price_factor
    quantity_factor,  \* l2::Orderbook.quantity_factor
    bids,             \* l2: BTreeMap as its in-order entry list <<key, value>>
    asks,
    key_factor,       \* orderbook::Orderbook.key_factor
    ob_bids,          \* orderbook: PriorityQueue as a set of [item, priority]
    ob_asks,
    call,             \* the last call made by the caller
    ret               \* the value that call returned

vars == <<kind, price_factor, quantity_factor, bids, asks,
          key_factor, ob_bids, ob_asks, call, ret>>

\* Option<T>
None == [some |-> FALSE]
Some(v) == [some |-> TRUE, val |-> v]
Unit == [unit |-> TRUE]

RECURSIVE Pow10(_)
Pow10(d) == IF d = 0 THEN 1 ELSE 10 * Pow10(d - 1)

\* `x as u64` of a non-NaN f64 given in units of 1/Den: truncation toward
\* zero, negative values saturate to 0.
as_u64(x) == IF x < 0 THEN 0 ELSE x \div Den

\* ======================================================== src/l2.rs
\* the outcome of a constructor: a factor, or a panic
Panic == [panic |-> TRUE]
Ok(factor) == [panic |-> FALSE, factor |-> factor]

\* Orderbook::new: the factor for one Option<u8> precision, or the panic
\* "Too many decimals".
l2_factor(decimals) ==
    IF decimals.some
    THEN IF decimals.val > MAX_DECIMALS THEN Panic ELSE Ok(Pow10(decimals.val))
    ELSE Ok(Pow10(DEFAULT_DECIMALS))

\* a clear that drops only the first entry (pop_first in place of clear)
btree_clear_first_only(m) == IF m = <<>> THEN <<>> ELSE Tail(m)

\* BTreeMap::clear
btree_clear(m) == <<>>

\* BTreeMap::insert on the in-order entry list: replaces the value of an
\* existing key, otherwise places the entry at its position in key order.
RECURSIVE btree_insert(_, _, _)
btree_insert(m, k, v) ==
    IF m = <<>> THEN << <<k, v>> >>
    ELSE IF Head(m)[1] = k THEN << <<k, v>> >> \o Tail(m)
    ELSE IF Head(m)[1] > k THEN << <<k, v>> >> \o m
    ELSE << Head(m) >> \o btree_insert(Tail(m), k, v)

\* one iteration of `for bid in bids.iter()` / `for ask in asks.iter()`
process_pair(m, pair, pf, qf) ==
    IF pair[2] > 0
    THEN btree_insert(m, as_u64(pair[1] * pf), as_u64(pair[2] * qf))
    ELSE m

RECURSIVE process_side(_, _, _, _)
process_side(m, updates, pf, qf) ==
    IF updates = <<>> THEN m
    ELSE process_side(process_pair(m, Head(updates), pf, qf), Tail(updates), pf, qf)

\* a process whose ask loop inserts into self.bids
process_asks_into_bids(b, a, bid_updates, ask_updates, is_snapshot, pf, qf) ==
    LET b0 == IF is_snapshot THEN btree_clear(b) ELSE b
        a0 == IF is_snapshot THEN btree_clear(a) ELSE a
    IN  << process_side(process_side(b0, bid_updates, pf, qf),
                        ask_updates, pf, qf),
           a0 >>

\* Orderbook::process: the resulting <<bids, asks>>
process(b, a, bid_updates, ask_updates, is_snapshot, pf, qf) ==
    LET b0 == IF is_snapshot THEN btree_clear(b) ELSE b
        a0 == IF is_snapshot THEN btree_clear(a) ELSE a
    IN  << process_side(b0, bid_updates, pf, qf),
           process_side(a0, ask_updates, pf, qf) >>

\* self.bids.iter().rev()
RECURSIVE Rev(_)
Rev(s) == IF s = <<>> THEN <<>> ELSE Rev(Tail(s)) \o << Head(s) >>

\* the best bid taken from the front of the ascending iteration
l2_get_best_bid_front(b) ==
    IF b = <<>> THEN None ELSE Some(Head(b))

l2_get_best_bid(b) ==
    IF b = <<>> THEN None ELSE Some(Head(Rev(b)))

l2_get_best_ask(a) ==
    IF a = <<>> THEN None ELSE Some(Head(a))

\* a weighted mid whose ask is read like the bid, from the far end of the map
get_weighted_mid_price_last_ask(b, a) ==
    LET best_bid_option == l2_get_best_bid(b)
    IN  IF ~best_bid_option.some THEN None
        ELSE LET best_bid == best_bid_option.val
                 best_ask_option == l2_get_best_bid(a)
             IN  IF ~best_ask_option.some THEN None
                 ELSE LET best_ask == best_ask_option.val
                      IN  Some([num |-> best_bid[1] * best_bid[2]
                                          + best_ask[1] * best_ask[2],
                                den |-> best_bid[2] + best_ask[2]])

\* Orderbook::get_weighted_mid_price: the quotient of the two u64 sums
get_weighted_mid_price(b, a) ==
    LET best_bid_option == l2_get_best_bid(b)
    IN  IF ~best_bid_option.some THEN None
        ELSE LET best_bid == best_bid_option.val
                 best_ask_option == l2_get_best_ask(a)
             IN  IF ~best_ask_option.some THEN None
                 ELSE LET best_ask == best_ask_option.val
                      IN  Some([num |-> best_bid[1] * best_bid[2]
                                          + best_ask[1] * best_ask[2],
                                den |-> best_bid[2] + best_ask[2]])

\* the loop of get_weighted_bid / get_weighted_ask:
\* <<numerator, total_quantity>> after the loop
RECURSIVE weighted_loop(_, _, _)
weighted_loop(levels, numerator, total_quantity) ==
    IF levels = <<>> THEN << numerator, total_quantity >>
    ELSE weighted_loop(Tail(levels),
                       numerator + Head(levels)[1] * Head(levels)[2],
                       total_quantity + Head(levels)[2])

l2_get_weighted_bid(b) ==
    IF b = <<>> THEN None
    ELSE LET w == weighted_loop(b, 0, 0)
         IN  Some([num |-> w[1], den |-> w[2]])

l2_get_weighted_ask(a) ==
    IF a = <<>> THEN None
    ELSE LET w == weighted_loop(a, 0, 0)
         IN  Some([num |-> w[1], den |-> w[2]])

\* the loop of get_total_bid_quantity / get_total_ask_quantity
RECURSIVE total_loop(_, _)
total_loop(levels, total_quantity) ==
    IF levels = <<>> THEN total_quantity
    ELSE total_loop(Tail(levels), total_quantity + Head(levels)[2])

\* (total_quantity as f64) / self.quantity_factor
get_total_bid_quantity(b, qf) == [num |-> total_loop(b, 0), den |-> qf]

get_total_ask_quantity(a, qf) == [num |-> total_loop(a, 0), den |-> qf]

\* the loop of simulate_taker_buy / simulate_taker_sell over the levels in
\* iteration order: <<amount_remaining, price_numerator>> after the loop
RECURSIVE taker_walk(_, _, _)
taker_walk(levels, amount_remaining, price_numerator) ==
    IF levels = <<>> THEN << amount_remaining, price_numerator >>
    ELSE LET ask_price == Head(levels)[1]
             ask_quantity == Head(levels)[2]
         IN  IF ask_quantity > amount_remaining
             THEN << 0, price_numerator + amount_remaining * ask_price >>
             ELSE taker_walk(Tail(levels),
                             amount_remaining - ask_quantity,
                             price_numerator + ask_quantity * ask_price)

\* the final match: the quotient price_numerator / (quantity_factor * quantity)
\* has operands price_numerator and qf * quantity / Den
taker_result(w, quantity, qf) ==
    IF w[1] = 0 THEN None
    ELSE Some([num |-> w[2] * Den, den |-> qf * quantity])

\* the same loop, listing what each iteration adds to price_numerator:
\* << price, quantity taken >> per level visited, in order
RECURSIVE taker_fills(_, _)
taker_fills(levels, amount_remaining) ==
    IF levels = <<>> THEN <<>>
    ELSE LET ask_price == Head(levels)[1]
             ask_quantity == Head(levels)[2]
         IN  IF ask_quantity > amount_remaining
             THEN << << ask_price, amount_remaining >> >>
             ELSE << << ask_price, ask_quantity >> >>
                  \o taker_fills(Tail(levels), amount_remaining - ask_quantity)

\* the levels in the order of the for loop: self.asks.iter()
taker_buy_levels(a) == a

\* a sell that iterates the bids without .rev()
taker_sell_levels_not_reversed(b) == b

\* the levels in the order of the for loop: self.bids.iter().rev()
taker_sell_levels(b) == Rev(b)

simulate_taker_buy(a, quantity, qf) ==
    taker_result(taker_walk(taker_buy_levels(a), as_u64(quantity * qf), 0),
                 quantity, qf)

simulate_taker_sell(b, quantity, qf) ==
    taker_result(taker_walk(taker_sell_levels(b), as_u64(quantity * qf), 0),
                 quantity, qf)

\* ================================================== src/orderbook.rs
\* Orderbook::new: base.pow(decimals) as f32
ob_key_factor(decimals) == Pow10(decimals)

\* Orderbook::new: no test of decimals precedes the power, and the u32
\* power does not overflow up to 10^9
ob_new(decimals) == Ok(ob_key_factor(decimals))

\* (price * self.key_factor).round() as u32: round half away from zero,
\* negative values saturate to 0
round_u32(x) == IF x < 0 THEN 0 ELSE (2 * x + Den) \div (2 * Den)

\* PriorityQueue::push: an item equal (PartialEq: same key) to a stored one
\* keeps the stored item and only takes the new priority; otherwise the
\* pair is inserted.
pq_push(pq, item, priority) ==
    IF \E e \in pq : e.item.key = item.key
    THEN { IF e.item.key = item.key
           THEN [item |-> e.item, priority |-> priority]
           ELSE e : e \in pq }
    ELSE pq \cup { [item |-> item, priority |-> priority] }

\* PriorityQueue::peek: the entry of greatest priority
pq_peek(pq) == CHOOSE e \in pq : \A f \in pq : f.priority <= e.priority

\* PriorityQueue::pop
pq_pop(pq) == pq \ { pq_peek(pq) }

PriceLevel(price, quantity, kf) ==
    [key |-> round_u32(price * kf), price |-> price, quantity |-> quantity]

\* an add that gives asks the priority of bids (key in place of -key)
add_ask_priority_not_negated(b, a, side, price, quantity, kf) ==
    LET price_level == PriceLevel(price, quantity, kf)
        key == price_level.key
    IN  IF side = 1
        THEN << pq_push(b, price_level, key), a >>
        ELSE << b, pq_push(a, price_level, key) >>

\* Orderbook::add: the resulting <<bids, asks>>
add(b, a, side, price, quantity, kf) ==
    LET price_level == PriceLevel(price, quantity, kf)
        key == price_level.key
    IN  IF side = 1
        THEN << pq_push(b, price_level, key), a >>
        ELSE << b, pq_push(a, price_level, -key) >>

ob_get_best_bid(b) ==
    IF b = {} THEN None ELSE Some(pq_peek(b).item)

ob_get_best_ask(a) ==
    IF a = {} THEN None ELSE Some(pq_peek(a).item)

\* PriorityQueue::into_sorted_iter (src/main.rs): the items in the order of
\* repeated peek/pop
RECURSIVE into_sorted_iter(_)
into_sorted_iter(pq) ==
    IF pq = {} THEN <<>>
    ELSE << pq_peek(pq).item >> \o into_sorted_iter(pq_pop(pq))

\* the while loop of simulate_market_order on the clone:
\* [amount_remaining, execution_price, worst_price_level] after the loop.
\* execution_price is in units of 1/Den^2.
RECURSIVE market_walk(_, _, _, _)
market_walk(book_side_clone, amount_remaining, execution_price, worst_price_level) ==
    IF book_side_clone = {}
    THEN [amount_remaining |-> amount_remaining,
          execution_price |-> execution_price,
          worst_price_level |-> worst_price_level]
    ELSE LET price_level == pq_peek(book_side_clone).item
             price == price_level.price
             quantity == price_level.quantity
         IN  IF quantity >= amount_remaining
             THEN [amount_remaining |-> 0,
                   execution_price |-> execution_price + price * amount_remaining,
                   worst_price_level |-> Some(price)]
             ELSE market_walk(pq_pop(book_side_clone),
                              amount_remaining - quantity,
                              execution_price + price * quantity,
                              worst_price_level)

\* the same loop, listing what each iteration adds to execution_price:
\* << price, quantity taken >> per level visited, in order
RECURSIVE market_fills(_, _)
market_fills(book_side_clone, amount_remaining) ==
    IF book_side_clone = {} THEN <<>>
    ELSE LET price_level == pq_peek(book_side_clone).item
             price == price_level.price
             quantity == price_level.quantity
         IN  IF quantity >= amount_remaining
             THEN << << price, amount_remaining >> >>
             ELSE << << price, quantity >> >>
                  \o market_fills(pq_pop(book_side_clone),
                                  amount_remaining - quantity)

\* a simulate_market_order that reports the price of the first level it
\* visits as the worst price
simulate_market_order_first_price(b, a, side, simulation_amount) ==
    LET book_side_clone == IF side = 1 THEN a ELSE b
    IN  IF book_side_clone = {} THEN None
        ELSE LET w == market_walk(book_side_clone, simulation_amount, 0, None)
             IN  IF w.amount_remaining # 0 THEN None
                 ELSE Some([avg |-> [num |-> w.execution_price,
                                     den |-> Den * simulation_amount],
                            worst |-> pq_peek(book_side_clone).item.price])

\* Orderbook::simulate_market_order
simulate_market_order(b, a, side, simulation_amount) ==
    LET book_side_clone == IF side = 1 THEN a ELSE b
    IN  IF book_side_clone = {} THEN None
        ELSE LET w == market_walk(book_side_clone, simulation_amount, 0, None)
             IN  IF w.amount_remaining # 0 THEN None
                 ELSE Some([avg |-> [num |-> w.execution_price,
                                     den |-> Den * simulation_amount],
                            worst |-> w.worst_price_level.val])

\* the loop of get_weighted_bid / get_weighted_ask over PriorityQueue::iter():
\* <<quantity, sum>> after the loop (sum in units of 1/Den^2); the sums are
\* exact, so the order of iter() does not show
RECURSIVE ob_weighted_loop(_, _, _)
ob_weighted_loop(pq, quantity_acc, sum_acc) ==
    IF pq = {} THEN << quantity_acc, sum_acc >>
    ELSE LET price_level == CHOOSE e \in pq : TRUE
             quantity == price_level.item.quantity
         IN  ob_weighted_loop(pq \ { price_level },
                              quantity_acc + quantity,
                              sum_acc + quantity * price_level.item.price)

ob_get_weighted_bid(b) ==
    IF b = {} THEN None
    ELSE LET w == ob_weighted_loop(b, 0, 0)
         IN  Some([num |-> w[2], den |-> Den * w[1]])

ob_get_weighted_ask(a) ==
    IF a = {} THEN None
    ELSE LET w == ob_weighted_loop(a, 0, 0)
         IN  Some([num |-> w[2], den |-> Den * w[1]])

\* ============================================================ the caller
\* A query's value is held by the caller until it is dropped; the caller
\* makes its next call after that.
Idle == call.op \in {"new", "process", "add", "drop"}

L2Frame == UNCHANGED <<kind, price_factor, quantity_factor, key_factor, ob_bids, ob_asks>>
ObFrame == UNCHANGED <<kind, price_factor, quantity_factor, key_factor, bids, asks>>

Pairs(P, Q) == { <<p, q>> : p \in P, q \in Q }

SeqsUpTo(S, n) == UNION { [1..k -> S] : k \in 0..n }

\* the argument lists of one process call: at most MaxUpd pairs in all
ProcessInputs ==
    { io \in SeqsUpTo(Pairs(L2PriceInputs, L2QtyInputs), MaxUpd)
              \X SeqsUpTo(Pairs(L2PriceInputs, L2QtyInputs), MaxUpd) :
        Len(io[1]) + Len(io[2]) <= MaxUpd }

Init ==
    /\ kind \in {"l2", "ob"}
    /\ bids = <<>> /\ asks = <<>>
    /\ ob_bids = {} /\ ob_asks = {}
    /\ IF kind = "l2"
       THEN /\ price_factor \in { l2_factor(Some(d)).factor : d \in DecimalsInputs }
            /\ quantity_factor \in { l2_factor(Some(d)).factor : d \in DecimalsInputs }
            /\ key_factor = 0
       ELSE /\ price_factor = 0 /\ quantity_factor = 0
            /\ key_factor \in { ob_new(d).factor : d \in DecimalsInputs }
    /\ call = [op |-> "new"]
    /\ ret = Unit

Process(bid_updates, ask_updates, is_snapshot) ==
    /\ kind = "l2" /\ Idle
    /\ LET r == process(bids, asks, bid_updates, ask_updates, is_snapshot,
                        price_factor, quantity_factor)
       IN  bids' = r[1] /\ asks' = r[2]
    /\ call' = [op |-> "process", is_snapshot |-> is_snapshot]
    /\ ret' = Unit
    /\ L2Frame

L2GetBestBid ==
    /\ kind = "l2" /\ Idle
    /\ call' = [op |-> "l2_get_best_bid"]
    /\ ret' = l2_get_best_bid(bids)
    /\ UNCHANGED <<bids, asks>> /\ L2Frame

L2GetBestAsk ==
    /\ kind = "l2" /\ Idle
    /\ call' = [op |-> "l2_get_best_ask"]
    /\ ret' = l2_get_best_ask(asks)
    /\ UNCHANGED <<bids, asks>> /\ L2Frame

SimulateTakerBuy(quantity) ==
    /\ kind = "l2" /\ Idle
    /\ call' = [op |-> "simulate_taker_buy", quantity |-> quantity]
    /\ ret' = simulate_taker_buy(asks, quantity, quantity_factor)
    /\ UNCHANGED <<bids, asks>> /\ L2Frame

SimulateTakerSell(quantity) ==
    /\ kind = "l2" /\ Idle
    /\ call' = [op |-> "simulate_taker_sell", quantity |-> quantity]
    /\ ret' = simulate_taker_sell(bids, quantity, quantity_factor)
    /\ UNCHANGED <<bids, asks>> /\ L2Frame

GetWeightedMidPrice ==
    /\ kind = "l2" /\ Idle
    /\ call' = [op |-> "get_weighted_mid_price"]
    /\ ret' = get_weighted_mid_price(bids, asks)
    /\ UNCHANGED <<bids, asks>> /\ L2Frame

L2GetWeightedBid ==
    /\ kind = "l2" /\ Idle
    /\ call' = [op |-> "l2_get_weighted_bid"]
    /\ ret' = l2_get_weighted_bid(bids)
    /\ UNCHANGED <<bids, asks>> /\ L2Frame

L2GetWeightedAsk ==
    /\ kind = "l2" /\ Idle
    /\ call' = [op |-> "l2_get_weighted_ask"]
    /\ ret' = l2_get_weighted_ask(asks)
    /\ UNCHANGED <<bids, asks>> /\ L2Frame

GetTotalBidQuantity ==
    /\ kind = "l2" /\ Idle
    /\ call' = [op |-> "get_total_bid_quantity"]
    /\ ret' = get_total_bid_quantity(bids, quantity_factor)
    /\ UNCHANGED <<bids, asks>> /\ L2Frame

GetTotalAskQuantity ==
    /\ kind = "l2" /\ Idle
    /\ call' = [op |-> "get_total_ask_quantity"]
    /\ ret' = get_total_ask_quantity(asks, quantity_factor)
    /\ UNCHANGED <<bids, asks>> /\ L2Frame

Add(side, price, quantity) ==
    /\ kind = "ob" /\ Idle
    /\ LET r == add(ob_bids, ob_asks, side, price, quantity, key_factor)
       IN  ob_bids' = r[1] /\ ob_asks' = r[2]
    /\ call' = [op |-> "add"]
    /\ ret' = Unit
    /\ ObFrame

ObGetBestBid ==
    /\ kind = "ob" /\ Idle
    /\ call' = [op |-> "ob_get_best_bid"]
    /\ ret' = ob_get_best_bid(ob_bids)
    /\ UNCHANGED <<ob_bids, ob_asks>> /\ ObFrame

ObGetBestAsk ==
    /\ kind = "ob" /\ Idle
    /\ call' = [op |-> "ob_get_best_ask"]
    /\ ret' = ob_get_best_ask(ob_asks)
    /\ UNCHANGED <<ob_bids, ob_asks>> /\ ObFrame

ObGetWeightedBid ==
    /\ kind = "ob" /\ Idle
    /\ call' = [op |-> "ob_get_weighted_bid"]
    /\ ret' = ob_get_weighted_bid(ob_bids)
    /\ UNCHANGED <<ob_bids, ob_asks>> /\ ObFrame

ObGetWeightedAsk ==
    /\ kind = "ob" /\ Idle
    /\ call' = [op |-> "ob_get_weighted_ask"]
    /\ ret' = ob_get_weighted_ask(ob_asks)
    /\ UNCHANGED <<ob_bids, ob_asks>> /\ ObFrame

\* what the while loop of simulate_market_order leaves of the queue it pops
RECURSIVE market_walk_rest(_, _)
market_walk_rest(book_side, amount_remaining) ==
    IF book_side = {} THEN book_side
    ELSE IF pq_peek(book_side).item.quantity >= amount_remaining THEN book_side
    ELSE market_walk_rest(pq_pop(book_side),
                          amount_remaining - pq_peek(book_side).item.quantity)

\* a simulate_market_order that walks and pops the live queue, not a clone
SimulateMarketOrder_without_clone(side, simulation_amount) ==
    /\ kind = "ob" /\ Idle
    /\ call' = [op |-> "simulate_market_order", side |-> side,
                quantity |-> simulation_amount]
    /\ ret' = simulate_market_order(ob_bids, ob_asks, side, simulation_amount)
    /\ IF side = 1
       THEN /\ ob_asks' = market_walk_rest(ob_asks, simulation_amount)
            /\ UNCHANGED ob_bids
       ELSE /\ ob_bids' = market_walk_rest(ob_bids, simulation_amount)
            /\ UNCHANGED ob_asks
    /\ ObFrame

SimulateMarketOrder(side, simulation_amount) ==
    /\ kind = "ob" /\ Idle
    /\ call' = [op |-> "simulate_market_order", side |-> side,
                quantity |-> simulation_amount]
    /\ ret' = simulate_market_order(ob_bids, ob_asks, side, simulation_amount)
    /\ UNCHANGED <<ob_bids, ob_asks>> /\ ObFrame

Drop ==
    /\ ~Idle
    /\ call' = [op |-> "drop"]
    /\ ret' = Unit
    /\ UNCHANGED <<kind, price_factor, quantity_factor, bids, asks,
                   key_factor, ob_bids, ob_asks>>

\* ------------------------------------------- the l2 book at 8 decimals
\* With both precisions 8 and whole-number inputs n, every scaled value is
\* n * 10^8 exactly.  The state of kind "l2_wide" holds each u64 of the maps
\* in units of WideUnit = 10^8, so that a sum of price * quantity is held in
\* units of 10^16 and exceeds u64::MAX exactly when it exceeds U64MaxWide.
WideUnit == Pow10(MAX_DECIMALS)

Wrapped == [wrapped |-> TRUE]

\* `+=` and `*` on u64: past u64::MAX a debug build panics and a release
\* build wraps; the sums only grow, so the last one decides
u64_outcomes(accumulated, value) ==
    IF accumulated > U64MaxWide THEN { Panic, Wrapped } ELSE { value }

WideProcessInputs ==
    { io \in SeqsUpTo(Pairs(WidePriceInputs, WideQtyInputs), MaxUpd)
              \X SeqsUpTo(Pairs(WidePriceInputs, WideQtyInputs), MaxUpd) :
        Len(io[1]) + Len(io[2]) <= MaxUpd }

InitWide ==
    /\ kind = "l2_wide"
    /\ bids = <<>> /\ asks = <<>>
    /\ ob_bids = {} /\ ob_asks = {}
    /\ price_factor = l2_factor(Some(MAX_DECIMALS)).factor
    /\ quantity_factor = l2_factor(Some(MAX_DECIMALS)).factor
    /\ key_factor = 0
    /\ call = [op |-> "new"]
    /\ ret = Unit

WideProcess(bid_updates, ask_updates, is_snapshot) ==
    /\ kind = "l2_wide" /\ Idle
    /\ LET r == process(bids, asks, bid_updates, ask_updates, is_snapshot,
                        price_factor \div WideUnit, quantity_factor \div WideUnit)
       IN  bids' = r[1] /\ asks' = r[2]
    /\ call' = [op |-> "process", is_snapshot |-> is_snapshot]
    /\ ret' = Unit
    /\ L2Frame

WideGetWeightedMidPrice ==
    /\ kind = "l2_wide" /\ Idle
    /\ call' = [op |-> "get_weighted_mid_price"]
    /\ LET r == get_weighted_mid_price(bids, asks)
       IN  ret' \in u64_outcomes(IF r.some THEN r.val.num ELSE 0, r)
    /\ UNCHANGED <<bids, asks>> /\ L2Frame

WideGetWeightedBid ==
    /\ kind = "l2_wide" /\ Idle
    /\ call' = [op |-> "l2_get_weighted_bid"]
    /\ ret' \in u64_outcomes(weighted_loop(bids, 0, 0)[1], l2_get_weighted_bid(bids))
    /\ UNCHANGED <<bids, asks>> /\ L2Frame

WideGetWeightedAsk ==
    /\ kind = "l2_wide" /\ Idle
    /\ call' = [op |-> "l2_get_weighted_ask"]
    /\ ret' \in u64_outcomes(weighted_loop(asks, 0, 0)[1], l2_get_weighted_ask(asks))
    /\ UNCHANGED <<bids, asks>> /\ L2Frame

WideSimulateTakerBuy(quantity) ==
    /\ kind = "l2_wide" /\ Idle
    /\ call' = [op |-> "simulate_taker_buy", quantity |-> quantity]
    /\ ret' \in u64_outcomes(
                  taker_walk(taker_buy_levels(asks),
                             as_u64(quantity * (quantity_factor \div WideUnit)), 0)[2],
                  simulate_taker_buy(asks, quantity, quantity_factor \div WideUnit))
    /\ UNCHANGED <<bids, asks>> /\ L2Frame

NextWide ==
    \/ \E io \in WideProcessInputs, is_snapshot \in BOOLEAN :
          WideProcess(io[1], io[2], is_snapshot)
    \/ WideGetWeightedMidPrice
    \/ WideGetWeightedBid
    \/ WideGetWeightedAsk
    \/ \E q \in WideSimQtyInputs : WideSimulateTakerBuy(q)
    \/ Drop

SpecWide == InitWide /\ [][NextWide]_vars

Next ==
    \/ \E io \in ProcessInputs, is_snapshot \in BOOLEAN :
          Process(io[1], io[2], is_snapshot)
    \/ L2GetBestBid
    \/ L2GetBestAsk
    \/ GetWeightedMidPrice
    \/ L2GetWeightedBid
    \/ L2GetWeightedAsk
    \/ GetTotalBidQuantity
    \/ GetTotalAskQuantity
    \/ \E q \in SimQtyInputs : SimulateTakerBuy(q)
    \/ \E q \in SimQtyInputs : SimulateTakerSell(q)
    \/ \E side \in {0, 1}, p \in ObPriceInputs, q \in ObQtyInputs : Add(side, p, q)
    \/ ObGetBestBid
    \/ ObGetBestAsk
    \/ ObGetWeightedBid
    \/ ObGetWeightedAsk
    \/ \E side \in {0, 1}, q \in SimQtyInputs : SimulateMarketOrder(side, q)
    \/ Drop

Spec == Init /\ [][Next]_vars

\* ====================================================== reference notions
\* levels are <<price, quantity>> pairs in consumption order
L2Buy == asks
L2Sell == Rev(bids)
ObLevels(pq) ==
    LET s == into_sorted_iter(pq)
    IN  [i \in DOMAIN s |-> << s[i].price, s[i].quantity >>]
ObSide(side) == IF side = 1 THEN ObLevels(ob_asks) ELSE ObLevels(ob_bids)

RECURSIVE SumQty(_)
SumQty(levels) ==
    IF levels = <<>> THEN 0 ELSE Head(levels)[2] + SumQty(Tail(levels))

RECURSIVE SumNotional(_)
SumNotional(levels) ==
    IF levels = <<>> THEN 0
    ELSE Head(levels)[1] * Head(levels)[2] + SumNotional(Tail(levels))

Min(x, y) == IF x <= y THEN x ELSE y

\* notional of taking `remaining` from the levels in order, each level giving
\* what it holds until the request is met
RECURSIVE RefNotional(_, _)
RefNotional(levels, remaining) ==
    IF levels = <<>> \/ remaining <= 0 THEN 0
    ELSE LET taken == Min(Head(levels)[2], remaining)
         IN  taken * Head(levels)[1] + RefNotional(Tail(levels), remaining - taken)

Keys(m) == { m[i][1] : i \in DOMAIN m }
ObKeys(pq) == { e.item.key : e \in pq }

Requested == as_u64(call.quantity * quantity_factor)
IsTakerBuy == call.op = "simulate_taker_buy"
IsTakerSell == call.op = "simulate_taker_sell"
IsMarketOrder == call.op = "simulate_market_order"

\* ================================================================= claims

\* C1: a simulation requesting strictly more than the total depth of the
\* consumed side returns an empty result, for either direction.
C1_ExhaustionReturnsEmpty ==
    /\ (IsTakerBuy /\ Requested > SumQty(L2Buy)) => ret = None
    /\ (IsTakerSell /\ Requested > SumQty(L2Sell)) => ret = None
    /\ (IsMarketOrder /\ call.quantity > SumQty(ObSide(call.side))) => ret = None

\* C2: when the quantized request is positive and at most the depth of the
\* consumed side, the simulation returns a value and its average price is
\* the notional of the walk divided by the requested quantity.
L2FillAvg(levels) ==
    /\ ret.some
    /\ ret.val.num * Requested = RefNotional(levels, Requested) * ret.val.den

ObFillAvg(levels) ==
    /\ ret.some
    /\ ret.val.avg.num * Den * call.quantity
          = RefNotional(levels, call.quantity) * ret.val.avg.den

C2_FillAveragesWalk ==
    /\ (IsTakerBuy /\ Requested > 0 /\ Requested <= SumQty(L2Buy))
          => L2FillAvg(L2Buy)
    /\ (IsTakerSell /\ Requested > 0 /\ Requested <= SumQty(L2Sell))
          => L2FillAvg(L2Sell)
    /\ (IsMarketOrder /\ call.quantity > 0
            /\ call.quantity <= SumQty(ObSide(call.side)))
          => ObFillAvg(ObSide(call.side))

\* C3: a simulation requesting exactly the total depth of the consumed side
\* returns a value whose average price is the total notional of the side
\* divided by its total quantity.
L2WholeSideAvg(levels) ==
    /\ ret.some
    /\ ret.val.num * SumQty(levels) = SumNotional(levels) * ret.val.den

ObWholeSideAvg(levels) ==
    /\ ret.some
    /\ ret.val.avg.num * Den * SumQty(levels)
          = SumNotional(levels) * ret.val.avg.den

C3_ExactDepthFillsWholeSide ==
    /\ (IsTakerBuy /\ Requested > 0 /\ Requested = SumQty(L2Buy))
          => L2WholeSideAvg(L2Buy)
    /\ (IsTakerSell /\ Requested > 0 /\ Requested = SumQty(L2Sell))
          => L2WholeSideAvg(L2Sell)
    /\ (IsMarketOrder /\ call.quantity > 0
            /\ call.quantity = SumQty(ObSide(call.side)))
          => ObWholeSideAvg(ObSide(call.side))

\* C4: no level stored on either side has a quantity less than or equal
\* to 0.
C4_NoNonPositiveLevel ==
    /\ \A i \in DOMAIN bids : bids[i][2] > 0
    /\ \A i \in DOMAIN asks : asks[i][2] > 0
    /\ \A e \in ob_bids \cup ob_asks : e.item.quantity > 0

\* C5: an update pair whose quantized quantity is <= 0 leaves no level at
\* its quantized price on the side it is applied to.
C5_NonPositiveQuantityRemoves ==
    /\ (kind = "l2" /\ Idle) =>
          \A pair \in Pairs(L2PriceInputs, L2QtyInputs) :
              as_u64(pair[2] * quantity_factor) <= 0 =>
                  LET r == process(bids, asks, << pair >>, << pair >>, FALSE,
                                   price_factor, quantity_factor)
                      key == as_u64(pair[1] * price_factor)
                  IN  key \notin Keys(r[1]) /\ key \notin Keys(r[2])
    /\ (kind = "ob" /\ Idle) =>
          \A side \in {0, 1}, p \in ObPriceInputs, q \in ObQtyInputs :
              q <= 0 =>
                  LET r == add(ob_bids, ob_asks, side, p, q, key_factor)
                      key == round_u32(p * key_factor)
                  IN  key \notin ObKeys(IF side = 1 THEN r[1] ELSE r[2])

\* C6: after a snapshot each side holds exactly the levels of the input
\* for that side whose quantized quantity is > 0 (the last pair given for
\* a price counting), whatever the book held before.
SnapshotLevels(updates) ==
    { << as_u64(updates[i][1] * price_factor),
         as_u64(updates[i][2] * quantity_factor) >> :
        i \in { j \in DOMAIN updates :
                  /\ as_u64(updates[j][2] * quantity_factor) > 0
                  /\ \A l \in DOMAIN updates :
                        l > j => as_u64(updates[l][1] * price_factor)
                                    # as_u64(updates[j][1] * price_factor) } }

Entries(m) == { m[i] : i \in DOMAIN m }

C6_SnapshotHoldsExactlyInput ==
    (kind = "l2" /\ Idle) =>
        \A io \in ProcessInputs :
            LET r == process(bids, asks, io[1], io[2], TRUE,
                             price_factor, quantity_factor)
            IN  /\ Entries(r[1]) = SnapshotLevels(io[1])
                /\ Entries(r[2]) = SnapshotLevels(io[2])
                /\ Len(r[1]) = Cardinality(Entries(r[1]))
                /\ Len(r[2]) = Cardinality(Entries(r[2]))

\* C7: an update with positive quantity for a price that already has a
\* level leaves one level at that price, carrying the new quantity.
C7_UpdateReplacesQuantity ==
    /\ (kind = "l2" /\ Idle) =>
          \A pair \in Pairs(L2PriceInputs, L2QtyInputs) :
              LET key == as_u64(pair[1] * price_factor)
                  r == process(bids, asks, << pair >>, << pair >>, FALSE,
                               price_factor, quantity_factor)
                  At(m) == { i \in DOMAIN m : m[i][1] = key }
                  Replaced(m) ==
                      /\ Cardinality(At(m)) = 1
                      /\ \A i \in At(m) :
                            m[i][2] = as_u64(pair[2] * quantity_factor)
              IN  /\ (pair[2] > 0 /\ key \in Keys(bids)) => Replaced(r[1])
                  /\ (pair[2] > 0 /\ key \in Keys(asks)) => Replaced(r[2])
    /\ (kind = "ob" /\ Idle) =>
          \A side \in {0, 1}, p \in ObPriceInputs, q \in ObQtyInputs :
              LET key == round_u32(p * key_factor)
                  before == IF side = 1 THEN ob_bids ELSE ob_asks
                  r == add(ob_bids, ob_asks, side, p, q, key_factor)
                  after == IF side = 1 THEN r[1] ELSE r[2]
                  At == { e \in after : e.item.key = key }
              IN  (q > 0 /\ key \in ObKeys(before)) =>
                      /\ Cardinality(At) = 1
                      /\ \A e \in At : e.item.quantity = q

\* C8: from any book, applying a snapshot a second time with the identical
\* input leaves the book that the first application produced.
C8_SnapshotIdempotent ==
    (kind = "l2" /\ Idle) =>
        \A io \in ProcessInputs :
            LET once == process(bids, asks, io[1], io[2], TRUE,
                                price_factor, quantity_factor)
                twice == process(once[1], once[2], io[1], io[2], TRUE,
                                 price_factor, quantity_factor)
            IN  twice = once

\* a snapshot has just been applied that gave levels to both sides, and
\* applying its input again as a snapshot reproduces the book
C8_Witness ==
    /\ kind = "l2" /\ call.op = "process" /\ call.is_snapshot
    /\ Len(bids) >= 1 /\ Len(asks) >= 1
    /\ \E io \in ProcessInputs :
          /\ io[1] # <<>> /\ io[2] # <<>>
          /\ process(<<>>, <<>>, io[1], io[2], TRUE,
                     price_factor, quantity_factor) = << bids, asks >>

\* C9: the bids enumerate in strictly descending price order and the asks
\* in strictly ascending price order, so a side holds at most one level per
\* price.
StrictlyAscending(levels) ==
    \A i, j \in DOMAIN levels : i < j => levels[i][1] < levels[j][1]
StrictlyDescending(levels) ==
    \A i, j \in DOMAIN levels : i < j => levels[i][1] > levels[j][1]

C9_SidesStrictlyOrdered ==
    /\ StrictlyDescending(Rev(bids))
    /\ StrictlyAscending(asks)
    /\ StrictlyDescending(ObLevels(ob_bids))
    /\ StrictlyAscending(ObLevels(ob_asks))
    /\ Cardinality(ObKeys(ob_bids)) = Cardinality(ob_bids)
    /\ Cardinality(ObKeys(ob_asks)) = Cardinality(ob_asks)

\* several levels on both sides of the priority-queue book, inserted out of
\* price order
C9_Witness ==
    /\ kind = "ob" /\ call.op = "add"
    /\ Cardinality(ob_bids) >= 3 /\ Cardinality(ob_asks) >= 3

\* C10: on a non-empty side the best-bid query returns the level of greatest
\* price and the best-ask query the level of least price, each with the
\* quantity stored for it.
C10_BestIsExtremeLevel ==
    /\ (call.op = "l2_get_best_bid" /\ bids # <<>>) =>
          /\ ret.some
          /\ ret.val \in Entries(bids)
          /\ \A e \in Entries(bids) : ret.val[1] >= e[1]
    /\ (call.op = "l2_get_best_ask" /\ asks # <<>>) =>
          /\ ret.some
          /\ ret.val \in Entries(asks)
          /\ \A e \in Entries(asks) : ret.val[1] <= e[1]
    /\ (call.op = "ob_get_best_bid" /\ ob_bids # {}) =>
          /\ ret.some
          /\ ret.val \in { e.item : e \in ob_bids }
          /\ \A e \in ob_bids : ret.val.price >= e.item.price
    /\ (call.op = "ob_get_best_ask" /\ ob_asks # {}) =>
          /\ ret.some
          /\ ret.val \in { e.item : e \in ob_asks }
          /\ \A e \in ob_asks : ret.val.price <= e.item.price

\* the best bid was asked of a book whose bid side holds two levels
C10_Witness ==
    /\ call.op = "l2_get_best_bid" /\ Len(bids) >= 2
    /\ ret.some /\ ret.val = bids[Len(bids)]

\* C11: every query and every simulation, whether it returns a value or
\* not, leaves both level stores and the scale factors as they were.
QueryOps ==
    { "l2_get_best_bid", "l2_get_best_ask", "get_weighted_mid_price",
      "l2_get_weighted_bid", "l2_get_weighted_ask",
      "get_total_bid_quantity", "get_total_ask_quantity",
      "simulate_taker_buy", "simulate_taker_sell",
      "ob_get_best_bid", "ob_get_best_ask",
      "ob_get_weighted_bid", "ob_get_weighted_ask",
      "simulate_market_order" }

C11_QueriesLeaveBookUnchanged ==
    [][ call'.op \in QueryOps =>
            UNCHANGED << bids, asks, ob_bids, ob_asks,
                         price_factor, quantity_factor, key_factor >> ]_vars

\* a simulated buy was filled across more than one ask level, and the levels
\* it consumed are all still in the queue
C11_Witness ==
    /\ call.op = "simulate_market_order" /\ call.side = 1 /\ ret.some
    /\ Cardinality(ob_asks) >= 2
    /\ pq_peek(ob_asks).item.quantity > 0
    /\ pq_peek(ob_asks).item.quantity < call.quantity
    /\ ret.val.worst # pq_peek(ob_asks).item.price

\* C12: a constructor given decimals in [0,8] yields the factor 10^decimals
\* (10^6 when the precision is omitted), and given decimals above 8 it
\* fails and yields no Orderbook.
ConstructionAsClaimed(outcome, decimals) ==
    IF decimals <= 8
    THEN ~outcome.panic /\ outcome.factor = 10 ^ decimals
    ELSE outcome.panic

C12_ConstructionScalesOrFails ==
    call.op = "new" =>
    /\ \A decimals \in ConstructionInputs :
          /\ ConstructionAsClaimed(l2_factor(Some(decimals)), decimals)
          /\ ConstructionAsClaimed(ob_new(decimals), decimals)
    /\ ConstructionAsClaimed(l2_factor(None), 6)

\* the same for src/l2.rs alone
C12_L2ConstructionScalesOrFails ==
    call.op = "new" =>
    /\ \A decimals \in ConstructionInputs :
          ConstructionAsClaimed(l2_factor(Some(decimals)), decimals)
    /\ ConstructionAsClaimed(l2_factor(None), 6)

\* C13: on an empty side best bid/ask and weighted bid/ask return an empty
\* result, the weighted mid is empty when either side is empty, a simulation
\* against an empty side returns an empty result, and the total quantity
\* is 0.
C13_NoDataIsEmptyResult ==
    /\ (call.op \in {"l2_get_best_bid", "l2_get_weighted_bid"} /\ bids = <<>>)
          => ret = None
    /\ (call.op \in {"l2_get_best_ask", "l2_get_weighted_ask"} /\ asks = <<>>)
          => ret = None
    /\ (call.op = "get_weighted_mid_price" /\ (bids = <<>> \/ asks = <<>>))
          => ret = None
    /\ (call.op = "get_total_bid_quantity" /\ bids = <<>>)
          => ret.num = 0 /\ ret.den # 0
    /\ (call.op = "get_total_ask_quantity" /\ asks = <<>>)
          => ret.num = 0 /\ ret.den # 0
    /\ (IsTakerBuy /\ asks = <<>>) => ret = None
    /\ (IsTakerSell /\ bids = <<>>) => ret = None
    /\ (call.op \in {"ob_get_best_bid", "ob_get_weighted_bid"} /\ ob_bids = {})
          => ret = None
    /\ (call.op \in {"ob_get_best_ask", "ob_get_weighted_ask"} /\ ob_asks = {})
          => ret = None
    /\ (IsMarketOrder /\ call.side = 1 /\ ob_asks = {}) => ret = None
    /\ (IsMarketOrder /\ call.side = 0 /\ ob_bids = {}) => ret = None

\* C14: with both sides non-empty the weighted mid price is
\* (bestBid.price * bestBid.qty + bestAsk.price * bestAsk.qty)
\*   / (bestBid.qty + bestAsk.qty),
\* over the greatest-price bid and the least-price ask only; it is empty
\* when either side is empty.
HighestLevel(m) == CHOOSE e \in Entries(m) : \A f \in Entries(m) : f[1] <= e[1]
LowestLevel(m) == CHOOSE e \in Entries(m) : \A f \in Entries(m) : f[1] >= e[1]

L2WeightedWithinRange(m) ==
    /\ ret.some
    /\ ret.val.num = SumNotional(m) /\ ret.val.den = SumQty(m)
    /\ ret.val.den > 0
    /\ LowestLevel(m)[1] * ret.val.den <= ret.val.num
    /\ ret.val.num <= HighestLevel(m)[1] * ret.val.den

ObWeightedWithinRange(pq) ==
    /\ ret.some
    /\ ret.val.num = SumNotional(ObLevels(pq))
    /\ ret.val.den = Den * SumQty(ObLevels(pq))
    /\ ret.val.den > 0
    /\ \A e \in pq : e.item.price * ret.val.den <= ret.val.num * Den
                        \/ \E f \in pq : f.item.price < e.item.price
    /\ \A e \in pq : ret.val.num * Den <= e.item.price * ret.val.den
                        \/ \E f \in pq : f.item.price > e.item.price

C15_WeightedPriceWithinRange ==
    /\ (call.op = "l2_get_weighted_bid" /\ bids # <<>>)
          => L2WeightedWithinRange(bids)
    /\ (call.op = "l2_get_weighted_ask" /\ asks # <<>>)
          => L2WeightedWithinRange(asks)
    /\ (call.op = "ob_get_weighted_bid" /\ ob_bids # {})
          => ObWeightedWithinRange(ob_bids)
    /\ (call.op = "ob_get_weighted_ask" /\ ob_asks # {})
          => ObWeightedWithinRange(ob_asks)

\* C16 (as stated): on every successful simulation the reported worst price
\* is the price of the last level from which a positive quantity was
\* consumed, the highest ask touched for a buy and the lowest bid touched
\* for a sell, and no level beyond it contributes to the notional.
ObQueue(side) == IF side = 1 THEN ob_asks ELSE ob_bids

RECURSIVE FillsNotional(_)
FillsNotional(fills) ==
    IF fills = <<>> THEN 0
    ELSE Head(fills)[1] * Head(fills)[2] + FillsNotional(Tail(fills))

WorstIsLastConsumed(fills) ==
    \E j \in DOMAIN fills :
        /\ fills[j][2] > 0
        /\ \A l \in DOMAIN fills : l > j => fills[l][2] <= 0
        /\ ret.val.worst = fills[j][1]
        /\ \A l \in DOMAIN fills :
              IF call.side = 1 THEN fills[l][1] <= ret.val.worst
                               ELSE fills[l][1] >= ret.val.worst
        /\ ret.val.avg.num = FillsNotional(SubSeq(fills, 1, j))

C16_WorstPriceIsLastLevelConsumed ==
    (IsMarketOrder /\ ret.some) =>
        WorstIsLastConsumed(market_fills(ObQueue(call.side), call.quantity))

\* C16 (amended): the same, on every successful simulation of a positive
\* requested quantity.
C16_WorstPriceOfPositiveRequest ==
    (IsMarketOrder /\ ret.some /\ call.quantity > 0) =>
        WorstIsLastConsumed(market_fills(ObQueue(call.side), call.quantity))

\* a positive request was filled across several levels, so the worst price
\* reported is not the best price of the side
C16_Witness ==
    /\ IsMarketOrder /\ ret.some /\ call.quantity > 0
    /\ Len(market_fills(ObQueue(call.side), call.quantity)) >= 2
    /\ ret.val.worst # pq_peek(ObQueue(call.side)).item.price

\* C17: a simulated buy consumes asks from the lowest price upward and a
\* simulated sell consumes bids from the highest price downward: a level
\* adds to the notional only after every strictly better-priced level of
\* the side has been consumed in full.
BetterFirst(fills, levels, is_buy) ==
    \A j \in DOMAIN fills :
        fills[j][2] # 0 =>
            \A e \in levels :
                (IF is_buy THEN e[1] < fills[j][1] ELSE e[1] > fills[j][1])
                    => \E i \in 1..(j - 1) : fills[i] = e

ObEntries(pq) == { << e.item.price, e.item.quantity >> : e \in pq }

C17_BetterPricedLevelsConsumedFirst ==
    /\ IsTakerBuy =>
          LET fills == taker_fills(taker_buy_levels(asks), Requested)
          IN  /\ BetterFirst(fills, Entries(asks), TRUE)
              /\ ret.some => ret.val.num = FillsNotional(fills) * Den
    /\ IsTakerSell =>
          LET fills == taker_fills(taker_sell_levels(bids), Requested)
          IN  /\ BetterFirst(fills, Entries(bids), FALSE)
              /\ ret.some => ret.val.num = FillsNotional(fills) * Den
    /\ IsMarketOrder =>
          LET fills == market_fills(ObQueue(call.side), call.quantity)
          IN  /\ BetterFirst(fills, ObEntries(ObQueue(call.side)), call.side = 1)
              /\ ret.some => ret.val.avg.num = FillsNotional(fills)

\* a simulated sell took a positive quantity from the second-best bid after
\* the best bid
C17_Witness ==
    /\ IsTakerSell /\ Len(bids) = 2
    /\ LET fills == taker_fills(taker_sell_levels(bids), Requested)
       IN  /\ Len(fills) = 2
           /\ fills[1] = bids[2] /\ fills[1][2] > 0
           /\ fills[2][1] = bids[1][1] /\ fills[2][2] > 0

\* C18: a delta update changes only the levels at the quantized prices its
\* lists name: every other level of a side keeps its price and quantity,
\* bid updates leave the ask side alone and ask updates the bid side.
NamedKeys(updates) ==
    { as_u64(updates[i][1] * price_factor) : i \in DOMAIN updates }

SameElsewhere(before, after, named) ==
    { e \in Entries(before) : e[1] \notin named }
        = { e \in Entries(after) : e[1] \notin named }

C18_DeltaChangesOnlyNamedLevels ==
    /\ (kind = "l2" /\ Idle) =>
          \A io \in ProcessInputs :
              LET r == process(bids, asks, io[1], io[2], FALSE,
                               price_factor, quantity_factor)
              IN  /\ SameElsewhere(bids, r[1], NamedKeys(io[1]))
                  /\ SameElsewhere(asks, r[2], NamedKeys(io[2]))
                  /\ r[1] = process(bids, asks, io[1], <<>>, FALSE,
                                    price_factor, quantity_factor)[1]
                  /\ r[2] = process(bids, asks, <<>>, io[2], FALSE,
                                    price_factor, quantity_factor)[2]
                  /\ io[1] = <<>> => r[1] = bids
                  /\ io[2] = <<>> => r[2] = asks
    /\ (kind = "ob" /\ Idle) =>
          \A side \in {0, 1}, p \in ObPriceInputs, q \in ObQtyInputs :
              LET r == add(ob_bids, ob_asks, side, p, q, key_factor)
                  key == round_u32(p * key_factor)
              IN  /\ side = 1 => r[2] = ob_asks
                  /\ side = 0 => r[1] = ob_bids
                  /\ { e \in r[1] : e.item.key # key }
                        = { e \in ob_bids : e.item.key # key }
                  /\ { e \in r[2] : e.item.key # key }
                        = { e \in ob_asks : e.item.key # key }

\* a delta has just been applied to a book that now holds two levels on
\* each side, and a further bid delta would change it
C18_Witness ==
    /\ kind = "l2" /\ call.op = "process" /\ ~call.is_snapshot
    /\ Len(bids) = 2 /\ Len(asks) = 2
    /\ \E io \in ProcessInputs :
          /\ io[1] # <<>> /\ io[2] = <<>>
          /\ process(bids, asks, io[1], io[2], FALSE,
                     price_factor, quantity_factor) # << bids, asks >>

\* C19: with precisions within the cap of 8 decimals, the u64 sums of
\* price * quantity made by the weighted bid/ask, the weighted mid and the
\* simulation never pass 2^64 - 1: no query wraps around or aborts.
C19_NoU64Overflow ==
    (kind = "l2_wide"
        /\ call.op \in { "get_weighted_mid_price", "l2_get_weighted_bid",
                         "l2_get_weighted_ask", "simulate_taker_buy" })
      => ret \notin { Panic, Wrapped }

\* C20: on every successful simulation the average fill price lies between
\* the best price and the worst price touched on the consumed side: best ask
\* <= average <= worst touched for a buy, worst touched <= average <= best
\* bid for a sell.  (num / den is the average, in the unit of the prices of
\* fills.)
AvgWithinTouched(num, den, fills, is_buy) ==
    /\ den > 0
    /\ LET best == fills[1][1]
           worst == fills[Len(fills)][1]
       IN  IF is_buy
           THEN best * den <= num /\ num <= worst * den
           ELSE worst * den <= num /\ num <= best * den

C20_AverageBetweenBestAndWorst ==
    /\ (IsTakerBuy /\ ret.some /\ L2Buy # <<>>)
          => AvgWithinTouched(ret.val.num, ret.val.den,
                              taker_fills(L2Buy, Requested), TRUE)
    /\ (IsTakerSell /\ ret.some /\ L2Sell # <<>>)
          => AvgWithinTouched(ret.val.num, ret.val.den,
                              taker_fills(L2Sell, Requested), FALSE)
    /\ (IsMarketOrder /\ ret.some)
          => AvgWithinTouched(ret.val.avg.num * Den, ret.val.avg.den,
                              market_fills(ObQueue(call.side), call.quantity),
                              call.side = 1)

====
